---- MODULE Spec2Model ----
(***************************************************************************)
(* Model of the execution coordinator of the orchestrator                  *)
(* (src/src/orchestrator/execution/coordinator.py) and of its worktree     *)
(* manager (src/src/orchestrator/worktree/manager.py).                     *)
(*                                                                         *)
(* The coordinator runs on one asyncio event loop: a step of the model is  *)
(* the code a coroutine or a synchronous caller runs between two points    *)
(* where another coroutine can run (an await that suspends).               *)
(*                                                                         *)
(* Abstractions:                                                           *)
(*  - a timestamp field holds 0 for None and k > 0 for the k-th value of   *)
(*    datetime.now() stored in that field of that execution;               *)
(*  - a log line is its message (add_log's timestamp prefix is dropped);   *)
(*  - Optional values are <<>> (None) or <<v>>;                            *)
(*  - the waiters of the semaphore are not ordered: any coroutine waiting  *)
(*    for a slot may take a free one.                                      *)
(***************************************************************************)
EXTENDS Integers, Sequences, FiniteSets, TLC

\* ------------------------------------------------------------------ bounds
MaxSlots == 2      \* max_concurrent is drawn from 1..MaxSlots
MaxExec  == 2      \* AgentExecution objects constructed in one behaviour
MaxCreate == 3     \* Worktree objects create_worktree returns in one behaviour

PortBase == 3000   \* WorktreeManager.__init__: self._port_counter = 3000

Tasks == {"t1", "t2"}                 \* task ids of the assignments
RunnerResults == {"Completed task"}   \* what the agent runner may return
RunnerErrors  == {"Test error"}       \* str(e) of what the agent runner may raise

\* ------------------------------------------------------------------ values
None == <<>>
Some(v) == <<v>>

PENDING   == "pending"
RUNNING   == "running"
COMPLETED == "completed"
FAILED    == "failed"
TIMEOUT   == "timeout"
CANCELLED == "cancelled"

ExecutionStatus == {PENDING, RUNNING, COMPLETED, FAILED, TIMEOUT, CANCELLED}
Terminal == {COMPLETED, FAILED, TIMEOUT, CANCELLED}

\* The outcomes of one agent-runner invocation (_run_agent, or what replaces it).
Outcomes ==
    [kind : {"return"}, value : RunnerResults]
      \cup [kind : {"timeout"}, value : {""}]
      \cup [kind : {"raise"}, value : RunnerErrors]

VARIABLES
    max_concurrent,  \* ExecutionCoordinator.max_concurrent
    sem,             \* ExecutionCoordinator._semaphore._value
    executions,      \* ExecutionCoordinator.executions: task id -> execution (index of heap)
    heap,            \* the AgentExecution objects constructed so far, in construction order
    pc,              \* per execution, where its _execute_single coroutine is
    calls,           \* the execute_parallel calls waiting in gather: the local list
                     \* `executions` of each
    error_log,       \* the task ids reported by logger.error("No worktree found ...")
    progress,        \* the value monitor_progress returned last (None before the first call)
    outcome,         \* history: per execution, the outcome of its agent-runner invocation
    cancelled,       \* history: the executions cancel_all has written
    wait,            \* the caller of wait_for_completion: where it is and what it got
    worktree_index,  \* WorktreeManager.worktrees: task id -> Worktree
    port_counter,    \* WorktreeManager._port_counter
    branches,        \* the branches of the git repository
    disk,            \* the worktree directories on disk: path -> its checkout
    issued,          \* history: the Worktree objects create_worktree returned, in order
    mcall,           \* history: the last call on the manager and how it ended
    threads,         \* per thread calling the manager, its position and its locals
    agents,          \* AgentAssigner.agents: the agent profiles, in the order of the file
    assignment_rules,\* AgentAssigner.assignment_rules: task type -> the rule of the type
    task_list,       \* the Task objects handed to the assigner
    acall            \* history: the last call on the assigner and how it ended

\* The variables of the coordinator, of the manager and of its calling threads.
cvars == <<max_concurrent, sem, executions, heap, pc, calls, error_log, progress, outcome,
           cancelled>>
mvars == <<worktree_index, port_counter, branches, disk, issued, mcall>>
avars == <<agents, assignment_rules, task_list, acall>>
vars == <<cvars, wait, mvars, threads, avars>>
not_coordinator == <<wait, mvars, threads, avars>>

Execs == 1..Len(heap)

\* ------------------------------------------------------------- AgentExecution
\* AgentExecution(worktree=..., assignment=...): the dataclass defaults.
AgentExecution(worktree, task) ==
    [worktree    |-> worktree,
     task        |-> task,
     status      |-> PENDING,
     start_time  |-> 0,
     end_time    |-> 0,
     logs        |-> <<>>,
     result      |-> None,
     return_code |-> None]

\* AgentExecution.add_log: append one line.
add_log(x, message) == [x EXCEPT !.logs = Append(@, message)]

\* AgentExecution.is_successful
is_successful(x) == x.status = COMPLETED /\ x.return_code = Some(0)

\* datetime.now() stored in a timestamp field: the next value of that field.
Now(old) == old + 1

\* dict.get(key): None when the key is absent.
Get(d, k) == IF k \in DOMAIN d THEN Some(d[k]) ELSE None

\* d[k] = v on a dict.
Put(d, k, v) == [x \in DOMAIN d \cup {k} |-> IF x = k THEN v ELSE d[x]]

\* ------------------------------------------------------------- coordinator
\* ExecutionCoordinator.__init__(max_concurrent)
CoordinatorInit(n) ==
    /\ max_concurrent = n
    /\ sem = n
    /\ executions = <<>>

\* The arguments a caller may pass to execute_parallel: a list of assignments
\* (each stands for its task id; a task id may occur twice; at most MaxExec of
\* them) and a map from task id to worktree.
AssignmentLists == UNION {[1..n -> Tasks] : n \in 0..MaxExec}
WorktreePath(t) == <<"worktree", t>>
WorktreeMaps == {[t \in ws |-> WorktreePath(t)] : ws \in SUBSET Tasks}

\* Mutant of CreateExecutions: the loop stops at the first assignment without
\* a worktree (break for continue).
CreateExecutionsBreak(assignments, worktrees, i, st) ==
    LET RECURSIVE Loop(_, _)
        Loop(j, acc) ==
          IF j > Len(assignments) THEN acc
          ELSE LET task == assignments[j]
                   worktree == Get(worktrees, task)
               IN  IF worktree = None
                   THEN [acc EXCEPT !.skipped = @ \cup {task}]
                   ELSE Loop(j + 1,
                          [heap       |-> Append(acc.heap, AgentExecution(worktree[1], task)),
                           executions |-> Put(acc.executions, task, Len(acc.heap) + 1),
                           list       |-> Append(acc.list, Len(acc.heap) + 1),
                           skipped    |-> acc.skipped])
    IN  Loop(i, st)

\* execute_parallel, the loop that creates the execution objects: st holds the
\* heap, the registry, the local list `executions` and the set of task ids
\* reported by logger.error after the assignments before position i.
RECURSIVE CreateExecutions(_, _, _, _)
CreateExecutions(assignments, worktrees, i, st) ==
    IF i > Len(assignments) THEN st
    ELSE LET task == assignments[i]
             worktree == Get(worktrees, task)
         IN  IF worktree = None
             THEN CreateExecutions(assignments, worktrees, i + 1,
                    [st EXCEPT !.skipped = @ \cup {task}])
             ELSE LET id == Len(st.heap) + 1
                  IN  CreateExecutions(assignments, worktrees, i + 1,
                        [heap       |-> Append(st.heap, AgentExecution(worktree[1], task)),
                         executions |-> Put(st.executions, task, id),
                         list       |-> Append(st.list, id),
                         skipped    |-> st.skipped])

\* execute_parallel up to `await asyncio.gather(...)`: the executions are
\* created and registered and one _execute_single coroutine per execution is
\* scheduled. gather of no coroutine is already done, and the call returns
\* without suspending. (No call is started once MaxExec executions exist.)
ExecuteParallel(assignments, worktrees) ==
    LET st == CreateExecutions(assignments, worktrees, 1,
                 [heap |-> heap, executions |-> executions, list |-> <<>>,
                  skipped |-> {}])
    IN  /\ Len(heap) < MaxExec
        /\ Len(st.heap) <= MaxExec
        /\ heap' = st.heap
        /\ executions' = st.executions
        /\ error_log' = error_log \cup st.skipped
        /\ pc' = [e \in 1..Len(st.heap) |-> IF e \in Execs THEN pc[e] ELSE "pending"]
        /\ outcome' = [e \in 1..Len(st.heap) |-> IF e \in Execs THEN outcome[e] ELSE None]
        /\ calls' = IF st.list = <<>> THEN calls ELSE calls \cup {st.list}
        /\ UNCHANGED not_coordinator
        /\ UNCHANGED <<max_concurrent, sem, progress, cancelled>>

\* Mutant of GatherDone: gather is taken as done when the first coroutine ends.
GatherAnyDone(list) == \E i \in 1..Len(list) : pc[list[i]] = "done"

\* Whether gather is done for a call: every coroutine of its batch has ended.
GatherDone(list) == \A i \in 1..Len(list) : pc[list[i]] = "done"

\* execute_parallel after gather: the local list is returned.
ExecuteParallelReturn(list) ==
    /\ list \in calls
    /\ GatherDone(list)
    /\ calls' = calls \ {list}
    /\ UNCHANGED not_coordinator
    /\ UNCHANGED <<max_concurrent, sem, executions, heap, pc, error_log, progress, outcome,
                   cancelled>>

\* Mutant of ExecuteSingleStart: the execution starts without taking a slot.
StartWithoutSlot(e) ==
    /\ e \in Execs
    /\ pc[e] = "pending"
    /\ sem' = sem
    /\ heap' = [heap EXCEPT ![e] =
                  add_log(add_log(add_log(add_log(
                    [@ EXCEPT !.status = RUNNING, !.start_time = Now(@)],
                    "Starting execution"), "Working in worktree"), "Agent"), "Task")]
    /\ pc' = [pc EXCEPT ![e] = "running"]
    /\ UNCHANGED not_coordinator
    /\ UNCHANGED <<max_concurrent, executions, calls, error_log, progress, outcome, cancelled>>

\* _execute_single from entering `async with self._semaphore` to the await
\* inside the agent runner: a slot is taken, the execution becomes RUNNING and
\* _run_agent writes its first lines. Without a free slot the coroutine waits.
ExecuteSingleStart(e) ==
    /\ e \in Execs
    /\ pc[e] = "pending"
    /\ sem > 0
    /\ sem' = sem - 1
    /\ heap' = [heap EXCEPT ![e] =
                  add_log(add_log(add_log(add_log(
                    [@ EXCEPT !.status = RUNNING, !.start_time = Now(@)],
                    "Starting execution"), "Working in worktree"), "Agent"), "Task")]
    /\ pc' = [pc EXCEPT ![e] = "running"]
    /\ UNCHANGED not_coordinator
    /\ UNCHANGED <<max_concurrent, executions, calls, error_log, progress, outcome, cancelled>>

\* Mutant of AfterRun: the handler of the timeout writes the return code of
\* a failure.
AfterRunOneCode(x, o) ==
    LET y == CASE o.kind = "return" ->
                    add_log([x EXCEPT !.result = Some(o.value),
                                      !.return_code = Some(0),
                                      !.status = COMPLETED],
                            "Execution completed successfully")
               [] o.kind = "timeout" ->
                    add_log([x EXCEPT !.status = TIMEOUT,
                                      !.return_code = Some(1)],
                            "Execution timed out")
               [] o.kind = "raise" ->
                    add_log([x EXCEPT !.status = FAILED,
                                      !.return_code = Some(1),
                                      !.result = Some(o.value)],
                            "Execution failed")
    IN  [y EXCEPT !.end_time = Now(@)]

\* Mutant of AfterRun: the handler of Exception comes first and takes the
\* timeout as well.
AfterRunOneHandler(x, o) ==
    LET y == CASE o.kind = "return" ->
                    add_log([x EXCEPT !.result = Some(o.value),
                                      !.return_code = Some(0),
                                      !.status = COMPLETED],
                            "Execution completed successfully")
               [] OTHER ->
                    add_log([x EXCEPT !.status = FAILED,
                                      !.return_code = Some(1),
                                      !.result = Some(o.value)],
                            "Execution failed")
    IN  [y EXCEPT !.end_time = Now(@)]

\* _execute_single, the try/except/finally around the agent runner: what is
\* written to the execution when the runner ends with outcome o.
AfterRun(x, o) ==
    LET y == CASE o.kind = "return" ->
                    add_log([x EXCEPT !.result = Some(o.value),
                                      !.return_code = Some(0),
                                      !.status = COMPLETED],
                            "Execution completed successfully")
               [] o.kind = "timeout" ->
                    add_log([x EXCEPT !.status = TIMEOUT,
                                      !.return_code = Some(-1)],
                            "Execution timed out")
               [] o.kind = "raise" ->
                    add_log([x EXCEPT !.status = FAILED,
                                      !.return_code = Some(1),
                                      !.result = Some(o.value)],
                            "Execution failed")
    IN  [y EXCEPT !.end_time = Now(@)]

\* Mutant of Release: the slot of a runner that timed out is kept.
ReleaseUnlessTimeout(s, o) == IF o.kind = "timeout" THEN s ELSE s + 1

\* Mutant of Release: the slot is given back only when the runner returned.
ReleaseOnSuccess(s, o) == IF o.kind = "return" THEN s + 1 ELSE s

\* The slots of the semaphore after the `async with` block of an execution
\* whose runner ended with outcome o: the slot is released on every outcome.
Release(s, o) == s + 1

\* Mutant of ExecuteSingleFinish: an execution whose runner did not return is
\* queued again.
ExecuteSingleFinishRetry(e, o) ==
    /\ e \in Execs
    /\ pc[e] = "running"
    /\ heap' = [heap EXCEPT ![e] = AfterRun(@, o)]
    /\ sem' = Release(sem, o)
    /\ pc' = [pc EXCEPT ![e] = IF o.kind = "return" THEN "done" ELSE "pending"]
    /\ outcome' = [outcome EXCEPT ![e] = Some(o)]
    /\ UNCHANGED not_coordinator
    /\ UNCHANGED <<max_concurrent, executions, calls, error_log, progress, cancelled>>

\* _execute_single from the end of the agent runner to the end of the coroutine.
ExecuteSingleFinish(e, o) ==
    /\ e \in Execs
    /\ pc[e] = "running"
    /\ heap' = [heap EXCEPT ![e] = AfterRun(@, o)]
    /\ sem' = Release(sem, o)
    /\ pc' = [pc EXCEPT ![e] = "done"]
    /\ outcome' = [outcome EXCEPT ![e] = Some(o)]
    /\ UNCHANGED not_coordinator
    /\ UNCHANGED <<max_concurrent, executions, calls, error_log, progress, cancelled>>

\* The executions of the registry: self.executions.values().
Registered == {executions[t] : t \in DOMAIN executions}

\* Mutant of CancelOne: only RUNNING executions are cancelled.
CancelRunningOnly(x) ==
    IF x.status = RUNNING
    THEN add_log([x EXCEPT !.status = CANCELLED, !.end_time = Now(@)],
                 "Execution cancelled")
    ELSE x

\* cancel_all, the body of its loop for one execution.
CancelOne(x) ==
    IF x.status \in {PENDING, RUNNING}
    THEN add_log([x EXCEPT !.status = CANCELLED, !.end_time = Now(@)],
                 "Execution cancelled")
    ELSE x

\* cancel_all: synchronous, so one step.
CancelAll ==
    /\ heap' = [e \in Execs |-> IF e \in Registered THEN CancelOne(heap[e]) ELSE heap[e]]
    /\ cancelled' = cancelled \cup
                      {e \in Registered : heap[e].status \in {PENDING, RUNNING}}
    /\ UNCHANGED not_coordinator
    /\ UNCHANGED <<max_concurrent, sem, executions, pc, calls, error_log, progress, outcome>>

\* monitor_progress: self.executions.copy(), a new dict holding the same
\* execution objects.
MonitorProgress ==
    /\ progress' = Some(executions)
    /\ UNCHANGED not_coordinator
    /\ UNCHANGED <<max_concurrent, sem, executions, heap, pc, calls, error_log, outcome,
                   cancelled>>

\* get_execution(task_id)
get_execution(task_id) == Get(executions, task_id)

\* --------------------------------------------------------- wait_for_completion
\* Mutant of all_done: any() for all().
any_done == \E e \in Registered : heap[e].status \in {COMPLETED, FAILED, TIMEOUT, CANCELLED}

\* wait_for_completion, the value of all_done at one poll.
all_done == \A e \in Registered : heap[e].status \in {COMPLETED, FAILED, TIMEOUT, CANCELLED}

\* The caller of wait_for_completion before its first call.
WaitIdle == [pc |-> "idle", late |-> FALSE, result |-> None]

\* Mutant of WaitPoll: a wait that expires marks what is still in flight TIMEOUT.
WaitPollExpiring(late) ==
    /\ wait' = IF all_done THEN [pc |-> "returned", late |-> FALSE, result |-> Some(Registered)]
               ELSE IF late THEN [pc |-> "raised", late |-> TRUE, result |-> None]
               ELSE [pc |-> "sleeping", late |-> FALSE, result |-> None]
    /\ heap' = IF ~all_done /\ late
               THEN [e \in Execs |->
                      IF e \in Registered /\ heap[e].status \in {PENDING, RUNNING}
                      THEN [heap[e] EXCEPT !.status = TIMEOUT, !.end_time = Now(@)]
                      ELSE heap[e]]
               ELSE heap
    /\ UNCHANGED <<max_concurrent, sem, executions, pc, calls, error_log, progress, outcome,
                   cancelled, mvars, threads, avars>>

\* wait_for_completion, one poll: the code from the call, or from the end of a
\* sleep, to the return, the raise or the next sleep.  late is the value of
\* elapsed > timeout at this poll (read only when all_done is false).  The
\* result is list(self.executions.values()), kept as the set of its elements.
\* A caller whose call has ended may call again.
WaitPoll(late) ==
    /\ wait' = IF all_done THEN [pc |-> "returned", late |-> FALSE, result |-> Some(Registered)]
               ELSE IF late THEN [pc |-> "raised", late |-> TRUE, result |-> None]
               ELSE [pc |-> "sleeping", late |-> FALSE, result |-> None]
    /\ UNCHANGED <<cvars, avars, mvars, threads>>

\* ------------------------------------------------------------------ get_summary
\* get_summary(): the dictionary it returns, for the registry as it is now.
get_summary ==
    LET count(s) == Cardinality({t \in DOMAIN executions : heap[executions[t]].status = s})
    IN  [k \in {"total", "completed", "failed", "timeout", "running", "pending"} |->
           IF k = "total" THEN Cardinality(DOMAIN executions) ELSE count(k)]

\* ------------------------------------------------------------ WorktreeManager
\* Abstractions: a branch name and a worktree path are the tuples of the parts
\* their f-strings join; a Worktree is its fields without env_file and
\* env_vars; of the git repository the model keeps the set of branches and,
\* per worktree directory on disk, whether it holds uncommitted changes.
Agents == {"claude", "copilot"}

\* _generate_branch_name: f"agent/{agent}/{task_id}"
generate_branch_name(agent, task_id) == <<"agent", agent, task_id>>

\* create_worktree: worktree_base_dir / f"worktree-{agent}-{task.id}"
worktree_path(agent, task_id) == <<"worktree", agent, task_id>>

\* Worktree(path=..., branch=..., agent=..., task_id=..., port=..., status="active")
Worktree(path, branch, agent, task_id, port) ==
    [path |-> path, branch |-> branch, agent |-> agent, task_id |-> task_id,
     port |-> port, status |-> "active"]

\* Mutant of allocate_port: the counter is not advanced.
allocate_port_again(counter) == [port |-> counter, counter |-> counter]

\* _allocate_port: the port returned and the counter left behind.
allocate_port(counter) == [port |-> counter, counter |-> counter + 1]

\* del d[k] on a dict.
Del(d, k) == [x \in DOMAIN d \ {k} |-> d[x]]

\* What a call on the manager left: its name, the exception it raised and
\* what it did, in order: the git commands it ran, each with whether it
\* succeeded, and for cleanup_all the path of each worktree it visited.
Call(op, raised, did) == [op |-> op, raised |-> raised, did |-> did]

\* What the environment decides about the git commands of one call: whether
\* `git branch`, `git worktree add` and `git branch -D` fail for a reason the
\* model does not hold, and whether the worktree is locked (then removing it
\* fails even with --force).
GitResults == [branch_error : BOOLEAN, add_error : BOOLEAN, locked : BOOLEAN]

\* The part of it create_worktree depends on, and the part the cleanup does.
CreateGit == {git \in GitResults : ~git.locked}
CleanupGit == {git \in GitResults : ~git.add_error}

\* Mutant of CreateWorktree: the port is allocated before the git commands.
CreateWorktreePortFirst(agent, task_id, git) ==
    LET branch_name == generate_branch_name(agent, task_id)
        path == worktree_path(agent, task_id)
        a == allocate_port(port_counter)
        worktree == Worktree(path, branch_name, agent, task_id, a.port)
    IN  /\ Len(issued) < MaxCreate
        /\ port_counter' = IF port_counter < PortBase + MaxCreate THEN a.counter
                           ELSE port_counter
        /\ IF branch_name \in branches \/ git.branch_error
           THEN /\ mcall' = Call("create_worktree", Some("RuntimeError"),
                                <<<<"git branch", FALSE>>>>)
                /\ UNCHANGED <<worktree_index, branches, disk, issued>>
           ELSE IF path \in DOMAIN disk \/ git.add_error
           THEN /\ branches' = branches \cup {branch_name}
                /\ mcall' = Call("create_worktree", Some("RuntimeError"),
                                <<<<"git branch", TRUE>>, <<"git worktree add", FALSE>>>>)
                /\ UNCHANGED <<worktree_index, disk, issued>>
           ELSE /\ branches' = branches \cup {branch_name}
                /\ disk' = Put(disk, path, [dirty |-> FALSE])
                /\ worktree_index' = Put(worktree_index, task_id, worktree)
                /\ issued' = Append(issued, worktree)
                /\ mcall' = Call("create_worktree", None,
                                <<<<"git branch", TRUE>>, <<"git worktree add", TRUE>>>>)
        /\ UNCHANGED <<cvars, avars, wait, threads>>

\* create_worktree(agent, task), one call.  `git branch` fails when the branch
\* exists, `git worktree add` when the directory exists.
CreateWorktree(agent, task_id, git) ==
    LET branch_name == generate_branch_name(agent, task_id)
        path == worktree_path(agent, task_id)
        a == allocate_port(port_counter)
        worktree == Worktree(path, branch_name, agent, task_id, a.port)
    IN  /\ Len(issued) < MaxCreate
        /\ IF branch_name \in branches \/ git.branch_error
           THEN /\ mcall' = Call("create_worktree", Some("RuntimeError"),
                                <<<<"git branch", FALSE>>>>)
                /\ UNCHANGED <<worktree_index, port_counter, branches, disk, issued>>
           ELSE IF path \in DOMAIN disk \/ git.add_error
           THEN /\ branches' = branches \cup {branch_name}
                /\ mcall' = Call("create_worktree", Some("RuntimeError"),
                                <<<<"git branch", TRUE>>, <<"git worktree add", FALSE>>>>)
                /\ UNCHANGED <<worktree_index, port_counter, disk, issued>>
           ELSE /\ branches' = branches \cup {branch_name}
                /\ disk' = Put(disk, path, [dirty |-> FALSE])
                /\ port_counter' = a.counter
                /\ worktree_index' = Put(worktree_index, task_id, worktree)
                /\ issued' = Append(issued, worktree)
                /\ mcall' = Call("create_worktree", None,
                                <<<<"git branch", TRUE>>, <<"git worktree add", TRUE>>>>)
        /\ UNCHANGED <<cvars, avars, wait, threads>>

\* The Worktree objects a caller can hold: those create_worktree returned.
Issued == {issued[k] : k \in 1..Len(issued)}

\* Mutant of Untrack: the index is left alone.
UntrackNothing(index, worktree) == index

\* `if worktree.task_id in self.worktrees: del self.worktrees[worktree.task_id]`
Untrack(index, worktree) ==
    IF worktree.task_id \in DOMAIN index THEN Del(index, worktree.task_id) ELSE index

\* Mutant of status_porcelain: `git status --porcelain` never prints anything.
status_clean(files, path) == FALSE

\* cleanup_worktree: `result.stdout.strip()` of `git status --porcelain`, true
\* when the directory holds uncommitted changes.
status_porcelain(files, path) == files[path].dirty

\* Mutant of branch_delete_error: the failure of `git branch -D` is raised.
branch_delete_raised(ok) == IF ok THEN None ELSE Some("CalledProcessError")

\* cleanup_worktree: the exception that leaves the try/except around
\* `git branch -D` (`except subprocess.CalledProcessError: pass`).
branch_delete_error(ok) == None

\* cleanup_worktree(worktree, force) on a manager and repository m (index,
\* branches, disk): what it leaves, the exception it raises and what it did.
\* The plain `git worktree remove` fails on uncommitted changes and on a
\* locked worktree; the forced one fails on a locked worktree, and its
\* CalledProcessError is not caught.
cleanup_worktree(m, worktree, force, git) ==
    LET path == worktree.path
        End(index, br, files, raised, did) ==
          [index |-> index, branches |-> br, disk |-> files, raised |-> raised, did |-> did]
    IN  IF path \notin DOMAIN m.disk
        THEN End(Untrack(m.index, worktree), m.branches, m.disk, None, <<>>)
        ELSE
          LET status == IF force THEN <<>> ELSE <<<<"git status", TRUE>>>>
              plain_ok == ~m.disk[path].dirty /\ ~git.locked
              forced_ok == ~git.locked
              remove == IF plain_ok THEN <<<<"git worktree remove", TRUE>>>>
                        ELSE <<<<"git worktree remove", FALSE>>,
                               <<"git worktree remove --force", forced_ok>>>>
              branch_ok == worktree.branch \in m.branches /\ ~git.branch_error
              br == IF branch_ok THEN m.branches \ {worktree.branch} ELSE m.branches
              did == status \o remove \o <<<<"git branch -D", branch_ok>>>>
          IN  IF ~force /\ status_porcelain(m.disk, path)
              THEN End(m.index, m.branches, m.disk, Some("RuntimeError"), status)
              ELSE IF ~plain_ok /\ ~forced_ok
              THEN End(m.index, m.branches, m.disk, Some("CalledProcessError"),
                       status \o remove)
              ELSE IF branch_delete_error(branch_ok) # None
              THEN End(m.index, br, Del(m.disk, path), branch_delete_error(branch_ok), did)
              ELSE End(Untrack(m.index, worktree), br, Del(m.disk, path), None, did)

\* The manager and the repository as cleanup_worktree reads them.
Manager == [index |-> worktree_index, branches |-> branches, disk |-> disk]

\* cleanup_worktree(worktree, force), one call.
CleanupWorktree(worktree, force, git) ==
    LET r == cleanup_worktree(Manager, worktree, force, git)
    IN  /\ worktree_index' = r.index
        /\ branches' = r.branches
        /\ disk' = r.disk
        /\ mcall' = Call("cleanup_worktree", r.raised, r.did)
        /\ UNCHANGED <<port_counter, issued>>
        /\ UNCHANGED <<cvars, avars, wait, threads>>

\* list_worktrees(): list(self.worktrees.values()), kept as the set of its elements.
list_worktrees == {worktree_index[t] : t \in DOMAIN worktree_index}

\* get_worktree(task_id)
get_worktree(task_id) == Get(worktree_index, task_id)

\* The orders in which a loop may visit the worktrees of the index (the
\* insertion order of the dict is not kept by the model).
Orders == {order \in [1..Cardinality(list_worktrees) -> list_worktrees] :
             \A i, j \in DOMAIN order : i # j => order[i] # order[j]}

\* cleanup_all, its loop from position i of worktrees_to_cleanup: a
\* RuntimeError of cleanup_worktree is printed and the loop goes on, any other
\* exception leaves the loop and cleanup_all.
RECURSIVE cleanup_loop(_, _, _, _, _, _)
cleanup_loop(m, worktrees_to_cleanup, i, force, gits, did) ==
    IF i > Len(worktrees_to_cleanup)
    THEN [index |-> m.index, branches |-> m.branches, disk |-> m.disk,
          raised |-> None, did |-> did]
    ELSE LET worktree == worktrees_to_cleanup[i]
             r == cleanup_worktree(m, worktree, force, gits[i])
             seen == did \o <<<<"cleanup_worktree", worktree.path>>>> \o r.did
             left == [index |-> r.index, branches |-> r.branches, disk |-> r.disk]
         IN  IF r.raised \in {None, Some("RuntimeError")}
             THEN cleanup_loop(left, worktrees_to_cleanup, i + 1, force, gits, seen)
             ELSE [index |-> r.index, branches |-> r.branches, disk |-> r.disk,
                   raised |-> r.raised, did |-> seen]

\* cleanup_all(force), one call; gits[i] is what the environment decides for
\* the i-th worktree visited.
CleanupAll(force, order, gits) ==
    LET r == cleanup_loop(Manager, order, 1, force, gits, <<>>)
    IN  /\ worktree_index' = r.index
        /\ branches' = r.branches
        /\ disk' = r.disk
        /\ mcall' = Call("cleanup_all", r.raised, r.did)
        /\ UNCHANGED <<port_counter, issued>>
        /\ UNCHANGED <<cvars, avars, wait, threads>>

\* A worktree directory is deleted without the manager (rm -rf): git keeps
\* its branch.
RemoveDirectory(path) ==
    /\ path \in DOMAIN disk
    /\ disk' = Del(disk, path)
    /\ UNCHANGED <<worktree_index, port_counter, branches, issued, mcall>>
    /\ UNCHANGED <<cvars, avars, wait, threads>>

\* Work in a worktree directory leaves uncommitted changes there.
WriteFile(path) ==
    /\ path \in DOMAIN disk
    /\ ~disk[path].dirty
    /\ disk' = [disk EXCEPT ![path].dirty = TRUE]
    /\ UNCHANGED <<worktree_index, port_counter, branches, issued, mcall>>
    /\ UNCHANGED <<cvars, avars, wait, threads>>

\* WorktreeManager.__init__, in a repository without agent branches.
ManagerInit ==
    /\ worktree_index = <<>>
    /\ port_counter = PortBase
    /\ branches = {}
    /\ disk = <<>>
    /\ issued = <<>>
    /\ mcall = Call("__init__", None, <<>>)

\* ------------------------------------------- WorktreeManager, called by threads
\* Several threads call one manager.  A step of a thread is one git command,
\* or one read or one write of a field of the manager: the code takes no lock,
\* so another thread may run between any two of them.  Here a git command
\* fails only for a reason the model holds.
Threads == {"T1", "T2"}

ThreadIdle == [pc |-> "idle", args |-> <<>>, port |-> 0, tmp |-> 0]

\* The threads inside create_worktree.
Creating == {t \in Threads : threads[t].pc \in {"git_branch", "git_worktree_add", "load_port",
                                               "load_counter", "store_counter", "track"}}

\* A thread takes one more step: only `threads` and what it names change.
ThreadStep(t, next) == threads' = [threads EXCEPT ![t] = next]

\* A thread calls create_worktree(agent, task): lines 58-64.
ThreadCreate(t, agent, task_id) ==
    /\ threads[t].pc = "idle"
    /\ Len(issued) + Cardinality(Creating) < MaxCreate
    /\ ThreadStep(t, [ThreadIdle EXCEPT !.pc = "git_branch", !.args = <<agent, task_id>>])
    /\ UNCHANGED <<cvars, avars, wait, mvars>>

\* create_worktree: `git branch`; its failure is raised as RuntimeError.
ThreadGitBranch(t) ==
    LET branch_name == generate_branch_name(threads[t].args[1], threads[t].args[2])
    IN  /\ threads[t].pc = "git_branch"
        /\ IF branch_name \in branches
           THEN /\ ThreadStep(t, ThreadIdle)
                /\ UNCHANGED branches
           ELSE /\ ThreadStep(t, [threads[t] EXCEPT !.pc = "git_worktree_add"])
                /\ branches' = branches \cup {branch_name}
        /\ UNCHANGED <<cvars, avars, wait, worktree_index, port_counter, disk, issued, mcall>>

\* create_worktree: `git worktree add`; its failure is raised as RuntimeError.
ThreadGitWorktreeAdd(t) ==
    LET path == worktree_path(threads[t].args[1], threads[t].args[2])
    IN  /\ threads[t].pc = "git_worktree_add"
        /\ IF path \in DOMAIN disk
           THEN /\ ThreadStep(t, ThreadIdle)
                /\ UNCHANGED disk
           ELSE /\ ThreadStep(t, [threads[t] EXCEPT !.pc = "load_port"])
                /\ disk' = Put(disk, path, [dirty |-> FALSE])
        /\ UNCHANGED <<cvars, avars, wait, worktree_index, port_counter, branches, issued, mcall>>

\* _allocate_port: `port = self._port_counter`
ThreadLoadPort(t) ==
    /\ threads[t].pc = "load_port"
    /\ ThreadStep(t, [threads[t] EXCEPT !.pc = "load_counter", !.port = port_counter])
    /\ UNCHANGED <<cvars, avars, wait, mvars>>

\* _allocate_port: `self._port_counter += 1`, the read of the field
ThreadLoadCounter(t) ==
    /\ threads[t].pc = "load_counter"
    /\ ThreadStep(t, [threads[t] EXCEPT !.pc = "store_counter", !.tmp = port_counter])
    /\ UNCHANGED <<cvars, avars, wait, mvars>>

\* _allocate_port: `self._port_counter += 1`, the write of the field
ThreadStoreCounter(t) ==
    /\ threads[t].pc = "store_counter"
    /\ ThreadStep(t, [threads[t] EXCEPT !.pc = "track"])
    /\ port_counter' = threads[t].tmp + 1
    /\ UNCHANGED <<cvars, avars, wait, worktree_index, branches, disk, issued, mcall>>

\* create_worktree: the Worktree is built, stored in the index and returned.
ThreadTrack(t) ==
    LET agent == threads[t].args[1]
        task_id == threads[t].args[2]
        worktree == Worktree(worktree_path(agent, task_id),
                             generate_branch_name(agent, task_id), agent, task_id,
                             threads[t].port)
    IN  /\ threads[t].pc = "track"
        /\ ThreadStep(t, ThreadIdle)
        /\ worktree_index' = Put(worktree_index, task_id, worktree)
        /\ issued' = Append(issued, worktree)
        /\ UNCHANGED <<cvars, avars, wait, port_counter, branches, disk, mcall>>

\* A thread calls cleanup_worktree(worktree, force): the directory test and,
\* without force, `git status --porcelain`.
ThreadCleanup(t, worktree, force) ==
    /\ threads[t].pc = "idle"
    /\ ThreadStep(t, [ThreadIdle EXCEPT
         !.pc = IF worktree.path \notin DOMAIN disk THEN "untrack"
                ELSE IF ~force /\ disk[worktree.path].dirty THEN "idle"
                ELSE "git_worktree_remove",
         !.args = IF worktree.path \in DOMAIN disk /\ ~force /\ disk[worktree.path].dirty
                  THEN <<>> ELSE <<worktree>>])
    /\ UNCHANGED <<cvars, avars, wait, mvars>>

\* cleanup_worktree: `git worktree remove`, then with --force; both fail when
\* another thread has removed the directory, and the second failure is raised.
ThreadGitWorktreeRemove(t) ==
    LET worktree == threads[t].args[1]
    IN  /\ threads[t].pc = "git_worktree_remove"
        /\ IF worktree.path \notin DOMAIN disk
           THEN /\ ThreadStep(t, ThreadIdle)
                /\ UNCHANGED disk
           ELSE /\ ThreadStep(t, [threads[t] EXCEPT !.pc = "git_branch_D"])
                /\ disk' = Del(disk, worktree.path)
        /\ UNCHANGED <<cvars, avars, wait, worktree_index, port_counter, branches, issued, mcall>>

\* cleanup_worktree: `git branch -D`, whose failure is swallowed.
ThreadGitBranchD(t) ==
    /\ threads[t].pc = "git_branch_D"
    /\ ThreadStep(t, [threads[t] EXCEPT !.pc = "untrack"])
    /\ branches' = branches \ {threads[t].args[1].branch}
    /\ UNCHANGED <<cvars, avars, wait, worktree_index, port_counter, disk, issued, mcall>>

\* cleanup_worktree: `if worktree.task_id in self.worktrees`
ThreadUntrack(t) ==
    /\ threads[t].pc = "untrack"
    /\ ThreadStep(t, IF threads[t].args[1].task_id \in DOMAIN worktree_index
                     THEN [threads[t] EXCEPT !.pc = "del"]
                     ELSE ThreadIdle)
    /\ UNCHANGED <<cvars, avars, wait, mvars>>

\* cleanup_worktree: `del self.worktrees[worktree.task_id]` (a KeyError when
\* another thread has deleted the entry since the test).
ThreadDel(t) ==
    /\ threads[t].pc = "del"
    /\ ThreadStep(t, ThreadIdle)
    /\ worktree_index' = Untrack(worktree_index, threads[t].args[1])
    /\ UNCHANGED <<cvars, avars, wait, port_counter, branches, disk, issued, mcall>>

\* ------------------------------------------------------------------ the agent assigner
\* Strings that the code takes apart (lower(), `keyword in text`) are kept as
\* sequences of pieces: "Refactoring" is <<"Refactor", "ing">>.  Scores are
\* kept in halves of a point, so that 10.0 is 20, 1.5 is 3 and 0.5 is 1.

MaxAgents == 2     \* profiles in the agents file
MaxTasks  == 2     \* Task objects handed to one assigner

TaskTypes == {"backend_api", "documentation"}     \* TaskType values of the tasks
Complexities == {"simple", "medium", "complex"}   \* Complexity values
Descriptions == {<<"Build", " ", "endpoint">>}    \* Task.description of the tasks
Activities == {<<>>}                              \* Task.key_activities of the tasks
TechStacks == {<<>>, <<"python">>}                \* Task.tech_stack of the tasks

\* The profiles an agents file may give to an agent.
Profiles ==
    [optimal_tasks : {{}, {"backend_api"}},
     strengths : {{"autocomplete_speed"}, {"architectural_planning", "complex_refactoring"}},
     supported_languages : {{}, {"python"}},
     context_window : {200000},
     cost_tier : {"premium", "budget"}]

\* self.agents: a dictionary in the order of the file, kept as the sequence
\* of its items <<name, profile>>.
Registries(profiles) ==
    UNION {{items \in [1..n -> Agents \X profiles] :
              \A i, j \in 1..n : items[i][1] = items[j][1] => i = j} : n \in 0..MaxAgents}

\* self.assignment_rules: task type -> [primary, secondary].
Rules == [primary : {"claude", "cursor"}, secondary : {<<>>, <<"copilot">>}]
RuleTables == {<<>>} \cup [{"backend_api"} -> Rules]

\* A Task, as far as the assigner reads and writes it.
Task(id, task_type, complexity, tech_stack, description, key_activities) ==
    [id |-> id, task_type |-> task_type, complexity |-> complexity,
     tech_stack |-> tech_stack, description |-> description,
     key_activities |-> key_activities, assigned_agent |-> None]

TaskKinds(ids, types) ==
    {Task(id, task_type, complexity, tech_stack, description, key_activities) :
       id \in ids, task_type \in types, complexity \in Complexities,
       tech_stack \in TechStacks, description \in Descriptions,
       key_activities \in Activities}

\* What a caller may pass as manual_override: None or a string.
Overrides == {None} \cup {Some(name) : name \in Agents \cup {"invalid_agent", ""}}

\* What a call on the assigner left: its name, its arguments (the Task by its
\* place in task_list, the agent by its place in the registry), the exception
\* it raised and the number it returned (None for a call that returns a Task
\* or a list of them).
Invoked(op, args, raised, returned) ==
    [op |-> op, args |-> args, raised |-> raised, returned |-> returned]

\* `key in self.agents` and self.agents[key].
keys(items) == {items[i][1] : i \in DOMAIN items}
get(items, key) == items[CHOOSE i \in DOMAIN items : items[i][1] = key][2]

\* scores[agent_name] = score: a new key goes to the end, a key the
\* dictionary holds keeps its place.
setitem(items, key, value) ==
    IF key \in keys(items)
    THEN [i \in DOMAIN items |-> IF items[i][1] = key THEN <<key, value>> ELSE items[i]]
    ELSE Append(items, <<key, value>>)

\* _validate_agent that accepts every name.
validate_any(agent_name) == TRUE

\* _validate_agent(agent_name)
validate_agent(agent_name) == agent_name \in keys(agents)

\* _score_complexity_match(complexity, agent)
score_complexity_match(complexity, agent) ==
    IF complexity = "simple"
    THEN (IF "autocomplete_speed" \in agent.strengths THEN 6 ELSE 0)
         + (IF "boilerplate_generation" \in agent.strengths THEN 4 ELSE 0)
    ELSE IF complexity = "complex"
    THEN (IF "architectural_planning" \in agent.strengths THEN 10 ELSE 0)
         + (IF "complex_refactoring" \in agent.strengths THEN 8 ELSE 0)
         + (IF "legacy_code_understanding" \in agent.strengths THEN 6 ELSE 0)
    ELSE 4

\* _score_tech_stack_match(tech_stack, agent): one match for each element of
\* the list that the agent's supported_languages hold.
score_tech_stack_match(tech_stack, agent) ==
    LET matches == Cardinality({i \in DOMAIN tech_stack :
                                  tech_stack[i] \in agent.supported_languages})
    IN  IF tech_stack = <<>> THEN 0 ELSE matches * 4

\* str.lower(), piece by piece.
lower(text) ==
    [i \in DOMAIN text |->
       CASE text[i] = "Refactor" -> "refactor"
         [] text[i] = "Legacy" -> "legacy"
         [] text[i] = "Build" -> "build"
         [] text[i] = "Add" -> "add"
         [] text[i] = "Python" -> "python"
         [] OTHER -> text[i]]

\* " ".join(strings)
RECURSIVE join(_)
join(strings) ==
    IF strings = <<>> THEN <<>>
    ELSE IF Len(strings) = 1 THEN strings[1]
    ELSE strings[1] \o <<" ">> \o join(Tail(strings))

\* `keyword in text`, for a keyword of one piece.
contains(text, keyword) == \E i \in DOMAIN text : text[i] = keyword

\* _score_context_window with > in the place of >=.
score_context_window_above(task, agent) ==
    LET context_window == agent.context_window
        text_content == lower(task.description \o <<" ">> \o join(task.key_activities))
        needs_large_context ==
            \E keyword \in {"multi-file", "refactor", "architecture", "legacy",
                            "comprehensive"} : contains(text_content, keyword)
    IN  IF needs_large_context /\ context_window > 100000 THEN 6
        ELSE IF needs_large_context /\ context_window > 50000 THEN 3
        ELSE IF ~needs_large_context /\ context_window > 8000 THEN 2
        ELSE 0

\* _score_context_window(task, agent)
score_context_window(task, agent) ==
    LET context_window == agent.context_window
        text_content == lower(task.description \o <<" ">> \o join(task.key_activities))
        needs_large_context ==
            \E keyword \in {"multi-file", "refactor", "architecture", "legacy",
                            "comprehensive"} : contains(text_content, keyword)
    IN  IF needs_large_context /\ context_window >= 100000 THEN 6
        ELSE IF needs_large_context /\ context_window >= 50000 THEN 3
        ELSE IF ~needs_large_context /\ context_window >= 8000 THEN 2
        ELSE 0

\* A score that looks at the agent the task has: one point more for a task
\* that is assigned already.
score_of_assigned(task, agent) ==
    (IF task.task_type \in agent.optimal_tasks THEN 20 ELSE 0)
    + score_complexity_match(task.complexity, agent)
    + score_tech_stack_match(task.tech_stack, agent)
    + score_context_window(task, agent)
    + (IF agent.cost_tier = "budget" THEN 2 ELSE IF agent.cost_tier = "mid" THEN 1 ELSE 0)
    + (IF task.assigned_agent # None THEN 2 ELSE 0)

\* _score_agents: the score of one agent, the sum of the five factors.
score(task, agent) ==
    (IF task.task_type \in agent.optimal_tasks THEN 20 ELSE 0)
    + score_complexity_match(task.complexity, agent)
    + score_tech_stack_match(task.tech_stack, agent)
    + score_context_window(task, agent)
    + (IF agent.cost_tier = "budget" THEN 2 ELSE IF agent.cost_tier = "mid" THEN 1 ELSE 0)

\* _score_agents(task, candidate_agents): the dictionary of the scores, as
\* the sequence of its items; a candidate the registry lacks is skipped.
RECURSIVE score_agents(_, _, _, _)
score_agents(task, candidate_agents, i, scores) ==
    IF i > Len(candidate_agents) THEN scores
    ELSE LET agent_name == candidate_agents[i]
         IN  IF agent_name \notin keys(agents)
             THEN score_agents(task, candidate_agents, i + 1, scores)
             ELSE score_agents(task, candidate_agents, i + 1,
                               setitem(scores, agent_name,
                                       score(task, get(agents, agent_name))))

\* max(scores.items(), key=lambda x: x[1]) the other way round: the last of
\* the items with the highest score.
max_last(scores) ==
    scores[CHOOSE i \in DOMAIN scores :
             \A j \in DOMAIN scores :
                /\ scores[j][2] <= scores[i][2]
                /\ j > i => scores[j][2] < scores[i][2]]

\* max(scores.items(), key=lambda x: x[1]): the first of the items with the
\* highest score.
max_item(scores) ==
    scores[CHOOSE i \in DOMAIN scores :
             \A j \in DOMAIN scores :
                /\ scores[j][2] <= scores[i][2]
                /\ j < i => scores[j][2] < scores[i][2]]

\* list(self.agents.keys()), were the registry empty.
no_agents == <<>>

\* list(self.agents.keys())
all_agents == [i \in DOMAIN agents |-> agents[i][1]]

\* The candidates of a rule, were they every agent of the registry.
every_agent(rules) == all_agents

\* [primary] + secondary
rule_candidates(rules) == <<rules.primary>> \o rules.secondary

\* _determine_best_agent(task)
determine_best_agent(task) ==
    LET has_rules == task.task_type \in DOMAIN assignment_rules
        by_rule == IF has_rules
                   THEN score_agents(task, rule_candidates(assignment_rules[task.task_type]),
                                     1, <<>>)
                   ELSE <<>>
        scores == score_agents(task, all_agents, 1, <<>>)
    IN  IF by_rule # <<>> THEN max_item(by_rule)[1]
        ELSE IF scores # <<>> THEN max_item(scores)[1]
        ELSE "claude"

\* `if manual_override:`: neither None nor the empty string.
truthy(manual_override) == manual_override # None /\ manual_override # Some("")

\* assign_agent(task, manual_override) on a Task: the Task as the call leaves
\* it, and the exception it raises.
assign_agent(task, manual_override) ==
    IF truthy(manual_override)
    THEN IF validate_agent(manual_override[1])
         THEN [task |-> [task EXCEPT !.assigned_agent = manual_override],
               raised |-> None]
         ELSE [task |-> task, raised |-> Some("ValueError")]
    ELSE [task |-> [task EXCEPT !.assigned_agent = Some(determine_best_agent(task))],
          raised |-> None]

\* assign_agents: the loop from task i on; the first exception ends it.
RECURSIVE assign_loop(_, _, _)
assign_loop(tasks, i, manual_overrides) ==
    IF i > Len(tasks) THEN [tasks |-> tasks, raised |-> None]
    ELSE LET override == manual_overrides[tasks[i].id]
             assigned == assign_agent(tasks[i], override)
         IN  IF assigned.raised # None
             THEN [tasks |-> tasks, raised |-> assigned.raised]
             ELSE assign_loop([tasks EXCEPT ![i] = assigned.task], i + 1, manual_overrides)

\* assign_agent(task_list[i], manual_override), the whole call.
AssignAgent(i, manual_override) ==
    LET assigned == assign_agent(task_list[i], manual_override)
    IN  /\ task_list' = [task_list EXCEPT ![i] = assigned.task]
        /\ acall' = Invoked("assign_agent", <<i, manual_override>>, assigned.raised, None)
        /\ UNCHANGED <<cvars, wait, mvars, threads, agents, assignment_rules>>

\* assign_agents(task_list, manual_overrides), the whole call.  The
\* dictionary manual_overrides is kept as the function task id -> what
\* manual_overrides.get(task.id) gives.
AssignAgents(manual_overrides) ==
    LET assigned == assign_loop(task_list, 1, manual_overrides)
    IN  /\ task_list' = assigned.tasks
        /\ acall' = Invoked("assign_agents", <<manual_overrides>>, assigned.raised, None)
        /\ UNCHANGED <<cvars, wait, mvars, threads, agents, assignment_rules>>

\* _score_tech_stack_match(task_list[i].tech_stack, agent k of the registry),
\* called as the tests call it.
ScoreTechStackMatch(i, k) ==
    /\ acall' = Invoked("_score_tech_stack_match", <<i, k>>, None,
                        Some(score_tech_stack_match(task_list[i].tech_stack, agents[k][2])))
    /\ UNCHANGED <<cvars, wait, mvars, threads, agents, assignment_rules, task_list>>

\* _score_context_window(task_list[i], agent k of the registry), called as
\* the tests call it.
ScoreContextWindow(i, k) ==
    /\ acall' = Invoked("_score_context_window", <<i, k>>, None,
                        Some(score_context_window(task_list[i], agents[k][2])))
    /\ UNCHANGED <<cvars, wait, mvars, threads, agents, assignment_rules, task_list>>

\* An assigner that is not used: no profiles, no rules, no tasks.
AssignerIdle ==
    /\ agents = <<>>
    /\ assignment_rules = <<>>
    /\ task_list = <<>>
    /\ acall = Invoked("__init__", <<>>, None, None)

\* The coordinator after construction, before any call.
CoordinatorStart ==
    /\ \E n \in 1..MaxSlots : CoordinatorInit(n)
    /\ heap = <<>>
    /\ pc = <<>>
    /\ calls = {}
    /\ error_log = {}
    /\ progress = None
    /\ outcome = <<>>
    /\ cancelled = {}

\* A coordinator and a manager after construction, and their callers.
Init ==
    /\ CoordinatorStart
    /\ wait = WaitIdle
    /\ ManagerInit
    /\ threads = [t \in Threads |-> ThreadIdle]
    /\ AssignerIdle

Next ==
    \/ \E a \in AssignmentLists, w \in WorktreeMaps : ExecuteParallel(a, w)
    \/ \E list \in calls : ExecuteParallelReturn(list)
    \/ \E e \in Execs : ExecuteSingleStart(e)
    \/ \E e \in Execs, o \in Outcomes : ExecuteSingleFinish(e, o)
    \/ CancelAll

Spec == Init /\ [][Next]_vars

\* The event loop runs every coroutine that can run, and every agent-runner
\* invocation ends (it returns, raises or times out).
FairSpec ==
    /\ Spec
    /\ \A e \in 1..MaxExec : WF_vars(ExecuteSingleStart(e))
    /\ \A e \in 1..MaxExec : WF_vars(\E o \in Outcomes : ExecuteSingleFinish(e, o))
    /\ WF_vars(\E list \in calls : ExecuteParallelReturn(list))

\* The coordinator with a caller of monitor_progress.
MonitorNext ==
    \/ Next
    \/ MonitorProgress

MonitorSpec == Init /\ [][MonitorNext]_vars

\* The coordinator with a caller of wait_for_completion.
WaitNext ==
    \/ Next
    \/ \E late \in BOOLEAN : WaitPoll(late)

WaitSpec == Init /\ [][WaitNext]_vars

\* One manager, its calls made one after another, next to an idle coordinator.
ManagerStart == Init /\ max_concurrent = 1

ManagerNext ==
    \/ \E agent \in Agents, task_id \in Tasks, git \in CreateGit :
         CreateWorktree(agent, task_id, git)
    \/ \E worktree \in Issued, force \in BOOLEAN, git \in CleanupGit :
         CleanupWorktree(worktree, force, git)
    \/ \E path \in DOMAIN disk : WriteFile(path)
    \/ \E path \in DOMAIN disk : RemoveDirectory(path)

ManagerSpec == ManagerStart /\ [][ManagerNext]_vars

\* The same with a caller of cleanup_all.
BulkNext ==
    \/ ManagerNext
    \/ \E force \in BOOLEAN, order \in Orders :
         \E gits \in [DOMAIN order -> CleanupGit] : CleanupAll(force, order, gits)

BulkSpec == ManagerStart /\ [][BulkNext]_vars

\* One manager called by several threads at once.
ThreadNext ==
    \/ \E t \in Threads, agent \in Agents, task_id \in Tasks : ThreadCreate(t, agent, task_id)
    \/ \E t \in Threads : ThreadGitBranch(t)
    \/ \E t \in Threads : ThreadGitWorktreeAdd(t)
    \/ \E t \in Threads : ThreadLoadPort(t)
    \/ \E t \in Threads : ThreadLoadCounter(t)
    \/ \E t \in Threads : ThreadStoreCounter(t)
    \/ \E t \in Threads : ThreadTrack(t)
    \/ \E t \in Threads, worktree \in Issued, force \in BOOLEAN :
         ThreadCleanup(t, worktree, force)
    \/ \E t \in Threads : ThreadGitWorktreeRemove(t)
    \/ \E t \in Threads : ThreadGitBranchD(t)
    \/ \E t \in Threads : ThreadUntrack(t)
    \/ \E t \in Threads : ThreadDel(t)

ThreadSpec == ManagerStart /\ [][ThreadNext]_vars

\* One assigner with its agents file loaded and one Task, next to an idle
\* coordinator and an idle manager.
Idle ==
    /\ CoordinatorStart
    /\ max_concurrent = 1
    /\ wait = WaitIdle
    /\ ManagerInit
    /\ threads = [t \in Threads |-> ThreadIdle]
    /\ acall = Invoked("__init__", <<>>, None, None)

AssignStart ==
    /\ Idle
    /\ agents \in Registries(Profiles)
    /\ assignment_rules \in RuleTables
    /\ task_list \in {<<task>> : task \in TaskKinds({"t1"}, TaskTypes)}

AssignNext ==
    \E i \in DOMAIN task_list, manual_override \in Overrides : AssignAgent(i, manual_override)

AssignSpec == AssignStart /\ [][AssignNext]_vars

\* One assigner and the tasks of a batch.
BatchProfiles == {profile \in Profiles : /\ profile.supported_languages = {}
                                         /\ "autocomplete_speed" \in profile.strengths
                                         /\ profile.cost_tier = "premium"}
BatchTasks == {task \in TaskKinds(Tasks, {"backend_api"}) :
                 task.complexity = "medium" /\ task.tech_stack = <<>>}

BatchStart ==
    /\ Idle
    /\ agents \in Registries(BatchProfiles)
    /\ assignment_rules \in RuleTables
    /\ task_list \in UNION {[1..n -> BatchTasks] : n \in 0..MaxTasks}

BatchNext ==
    \/ AssignNext
    \/ \E manual_overrides \in [Tasks -> Overrides] : AssignAgents(manual_overrides)

BatchSpec == BatchStart /\ [][BatchNext]_vars

\* One assigner with one profile and one Task, and a caller of its scoring
\* functions.  The windows lie on both sides of each threshold of the code;
\* the stacks hold a repeated tag, a tag in capitals and a tag no profile
\* supports; the texts hold a keyword in capitals, a keyword inside a longer
\* word and a keyword in the activities only.
ContextWindows == {0, 7999, 8000, 49999, 50000, 99999, 100000, 200000}
ScoreStacks == {<<>>, <<"python">>, <<"Python">>, <<"python", "python">>,
                <<"python", "react">>, <<"go">>}
ScoreDescriptions == {<<"Build", " ", "endpoint">>, <<"Refactor", "ing", " ", "module">>}
ScoreActivities == {<<>>, <<<<"Add", " ", "tests">>, <<"legacy", " ", "cleanup">>>>}

ScoreProfiles ==
    [optimal_tasks : {{}},
     strengths : {{}},
     supported_languages : {{}, {"python"}, {"python", "react"}},
     context_window : ContextWindows,
     cost_tier : {"premium"}]

ScoreTasks ==
    {Task("t1", "backend_api", "medium", tech_stack, description, key_activities) :
       tech_stack \in ScoreStacks, description \in ScoreDescriptions,
       key_activities \in ScoreActivities}

ScoreStart ==
    /\ Idle
    /\ agents \in {<<<<"claude", profile>>>> : profile \in ScoreProfiles}
    /\ assignment_rules = <<>>
    /\ task_list \in {<<task>> : task \in ScoreTasks}

ScoreNext ==
    \/ \E i \in DOMAIN task_list, k \in DOMAIN agents : ScoreTechStackMatch(i, k)
    \/ \E i \in DOMAIN task_list, k \in DOMAIN agents : ScoreContextWindow(i, k)

ScoreSpec == ScoreStart /\ [][ScoreNext]_vars

\* ------------------------------------------------------------------ claims
StatusOf(e) == heap[e].status
RunningExecs == {e \in Execs : StatusOf(e) = RUNNING}
Last(q) == q[Len(q)]

\* C1: the number of RUNNING executions never exceeds max_concurrent, and an
\* execution whose coroutine has not taken a slot yet is still PENDING (unless
\* cancel_all has written it).
C1_ConcurrencyBound ==
    /\ Cardinality(RunningExecs) <= max_concurrent
    /\ \A e \in Execs :
         (pc[e] = "pending" /\ e \notin cancelled) => StatusOf(e) = PENDING
    /\ \A e \in RunningExecs : pc[e] = "running"

\* C1 witness: every slot is taken by a RUNNING execution and another execution
\* waits PENDING.
C1_Witness ==
    /\ Cardinality(RunningExecs) = max_concurrent
    /\ \E e \in Execs : pc[e] = "pending" /\ StatusOf(e) = PENDING

AllowedTransitions ==
    {<<PENDING, RUNNING>>, <<RUNNING, COMPLETED>>, <<RUNNING, FAILED>>,
     <<RUNNING, TIMEOUT>>, <<PENDING, CANCELLED>>, <<RUNNING, CANCELLED>>}

\* C2: a status changes only along the six transitions of the state machine,
\* and an execution whose status is terminal is never written again.
C2_StatusStateMachine ==
    [][\A e \in Execs :
         /\ heap'[e].status # heap[e].status
              => <<heap[e].status, heap'[e].status>> \in AllowedTransitions
         /\ heap[e].status \in Terminal => heap'[e] = heap[e]]_vars

\* C3: end_time is set if and only if the status is terminal.
C3_EndTimeIffTerminal ==
    \A e \in Execs : (heap[e].end_time # 0) <=> (StatusOf(e) \in Terminal)

\* C5: for an execution that ran to its end and that cancel_all never wrote,
\* status, return code and result are those of the runner's outcome.
C5_OutcomeDecidesRecord ==
    \A e \in Execs :
      (pc[e] = "done" /\ e \notin cancelled) =>
        LET o == outcome[e][1]
            x == heap[e]
        IN  CASE o.kind = "return" ->
                   /\ x.status = COMPLETED
                   /\ x.return_code = Some(0)
                   /\ x.result = Some(o.value)
              [] o.kind = "timeout" ->
                   /\ x.status = TIMEOUT
                   /\ x.return_code = Some(-1)
              [] o.kind = "raise" ->
                   /\ x.status = FAILED
                   /\ x.return_code = Some(1)
                   /\ x.result = Some(o.value)

\* C5 witness: two executions never cancelled, one whose runner timed out and
\* one whose runner raised, have ended.
C5_Witness ==
    \E e1, e2 \in Execs :
      /\ pc[e1] = "done" /\ e1 \notin cancelled /\ outcome[e1][1].kind = "timeout"
      /\ pc[e2] = "done" /\ e2 \notin cancelled /\ outcome[e2][1].kind = "raise"

\* C7: end_time is written exactly once in the life of an execution: never
\* twice, and once when its coroutine has ended.
C7_EndTimeWrittenOnce ==
    \A e \in Execs :
      /\ heap[e].end_time <= 1
      /\ pc[e] = "done" => heap[e].end_time = 1

Members(list) == {list[i] : i \in 1..Len(list)}
InCall(e) == \E list \in calls : e \in Members(list)
Failure(e) == outcome[e] # None /\ outcome[e][1].kind \in {"timeout", "raise"}

Ended(e) == IF e \in Execs THEN pc[e] = "done" /\ StatusOf(e) \in Terminal ELSE FALSE

\* C4: the end of an execution whose runner raised or timed out writes no
\* other execution, and every execution, whatever happens to the others,
\* eventually ends with a terminal status.
C4_SiblingsIndependent ==
    /\ [][\A e \in Execs, o \in Outcomes :
            (o.kind # "return" /\ ExecuteSingleFinish(e, o))
              => \A x \in Execs \ {e} : heap'[x] = heap[x]]_vars
    /\ \A e \in 1..MaxExec :
         (e \in Execs) ~> Ended(e)

\* C4 witness: with a single slot, in one batch still in gather, the runner of
\* one execution has raised or timed out and another execution has COMPLETED.
C4_Witness ==
    \E list \in calls : \E e, x \in Members(list) :
      /\ Failure(e)
      /\ heap[x].status = COMPLETED /\ pc[x] = "done"
      /\ max_concurrent = 1

\* C6: every execute_parallel call waiting in gather eventually returns, and
\* when it returns every execution of its list has a terminal status.
C6_ExecuteParallelReturns ==
    /\ \A e \in 1..MaxExec : InCall(e) ~> ~InCall(e)
    /\ [][\A list \in calls :
            ExecuteParallelReturn(list)
              => \A e \in Members(list) : heap[e].status \in Terminal]_vars

\* C6 witness: a call with more executions than slots has no coroutine left
\* to wait for.
C6_Witness ==
    \E list \in calls :
      /\ Len(list) > max_concurrent
      /\ \A e \in Members(list) : pc[e] = "done"

\* C8: a cancel_all step makes every registered PENDING or RUNNING execution
\* CANCELLED with end_time set and the cancellation line last in its logs,
\* leaves every other execution as it was, and leaves the registry as it was.
C8_CancelAllEffect ==
    [][CancelAll =>
         /\ executions' = executions
         /\ \A e \in Execs :
              IF e \in Registered /\ heap[e].status \in {PENDING, RUNNING}
              THEN /\ heap'[e].status = CANCELLED
                   /\ heap'[e].end_time # 0
                   /\ heap'[e].logs # <<>>
                   /\ Last(heap'[e].logs) = "Execution cancelled"
                   /\ heap'[e].result = heap[e].result
                   /\ heap'[e].return_code = heap[e].return_code
              ELSE heap'[e] = heap[e]]_vars

\* C8 witness: a registered execution that waited for a slot is CANCELLED, with
\* the cancellation line as its only log line, beside a registered execution
\* that had COMPLETED before and kept its record.
C8_Witness ==
    \E e, x \in Registered :
      /\ heap[e].status = CANCELLED /\ pc[e] = "pending"
      /\ heap[e].logs = <<"Execution cancelled">> /\ heap[e].end_time = 1
      /\ heap[x].status = COMPLETED /\ heap[x].end_time = 1
      /\ Last(heap[x].logs) = "Execution completed successfully"

\* What an execute_parallel(a, w) step must have done.
C9_Post(a, w) ==
    LET new == (Len(heap) + 1)..Len(heap')
        kept == SelectSeq(a, LAMBDA t : t \in DOMAIN w)
    IN  /\ \A e \in new : heap'[e].task \in DOMAIN w
        /\ \A t \in Tasks \ DOMAIN w : Get(executions', t) = Get(executions, t)
        /\ Len(heap') = Len(heap) + Len(kept)
        /\ \A i \in 1..Len(kept) :
             /\ heap'[Len(heap) + i].task = kept[i]
             /\ pc'[Len(heap) + i] = "pending"
        /\ kept # <<>> => [i \in 1..Len(kept) |-> Len(heap) + i] \in calls'
        /\ \A t \in DOMAIN w : (\E i \in 1..Len(a) : a[i] = t) => executions'[t] \in new

\* C9: an execute_parallel step creates, registers, schedules and will return
\* no execution for an assignment whose task id has no worktree, and creates,
\* registers, schedules and will return one for every other assignment.
C9_MissingWorktreeSkipped ==
    [][\A a \in AssignmentLists, w \in WorktreeMaps :
         ExecuteParallel(a, w) => C9_Post(a, w)]_vars

\* C9 witness: a task id was reported as having no worktree and is not in the
\* registry, beside a registered execution that has run to its end.
C9_Witness ==
    \E t \in error_log :
      /\ t \notin DOMAIN executions
      /\ \E e \in Registered : pc[e] = "done"

\* What is seen through the map monitor_progress returned.
ProgressView == [t \in DOMAIN progress[1] |-> heap[progress[1][t]]]

\* C10: what is seen through a map returned by monitor_progress never changes.
C10_ProgressIsSnapshot ==
    [][(progress # None /\ progress' = progress)
         => (DOMAIN progress'[1] = DOMAIN progress[1] /\ ProgressView' = ProgressView)]_vars

\* C11: wait_for_completion returns only at a poll where every registered
\* execution has a terminal status, and then returns the registered
\* executions (none when none is registered); at a poll where some execution
\* is still PENDING or RUNNING it does not return, and it raises exactly when
\* the elapsed wait exceeds the timeout there.
C11_WaitReturnsWhenAllTerminal ==
    [][wait' # wait =>
         LET AllTerminal == \A e \in Registered : StatusOf(e) \in Terminal
         IN  /\ (wait'.pc = "returned") <=> AllTerminal
             /\ wait'.pc = "returned" => wait'.result = Some(Registered)
             /\ wait'.pc = "raised" => wait'.late
             /\ (~AllTerminal /\ wait'.late) => wait'.pc = "raised"]_vars

\* A wait has returned two registered executions, one of them FAILED.
C11_Witness ==
    /\ wait.pc = "returned"
    /\ wait.result = Some(Registered)
    /\ Cardinality(Registered) = 2
    /\ \A e \in Registered : StatusOf(e) \in Terminal
    /\ \E e \in Registered : StatusOf(e) = FAILED

\* C12: a step of wait_for_completion, whether it returns, raises or goes to
\* sleep, leaves the registry and every execution as they were.
C12_WaitModifiesNothing ==
    [][wait' # wait => UNCHANGED <<executions, heap, sem, max_concurrent>>]_vars

\* A wait has expired while one registered execution was RUNNING and another
\* PENDING, and they still are.
C12_Witness ==
    /\ wait.pc = "raised"
    /\ \E e \in Registered : StatusOf(e) = RUNNING /\ heap[e].end_time = 0
    /\ \E e \in Registered : StatusOf(e) = PENDING /\ heap[e].logs = <<>>

\* The count get_summary reports for a status (none reported counts as 0).
SummaryCount(status) ==
    IF status \in DOMAIN get_summary THEN get_summary[status] ELSE 0

\* C13: get_summary reports the number of registered executions as total and,
\* for each of the six statuses, the number of registered executions in it.
C13_SummaryCountsEveryStatus ==
    /\ get_summary["total"] = Cardinality(DOMAIN executions)
    /\ \A status \in ExecutionStatus :
         SummaryCount(status) =
           Cardinality({t \in DOMAIN executions : StatusOf(executions[t]) = status})

\* C14: every PENDING or RUNNING execution is the one registered under its
\* task id, so no two of them have the same task id.
C14_OneInFlightPerTask ==
    \A e \in Execs :
      StatusOf(e) \in {PENDING, RUNNING} =>
        /\ get_execution(heap[e].task) = Some(e)
        /\ \A f \in Execs \ {e} :
             StatusOf(f) \in {PENDING, RUNNING} => heap[f].task # heap[e].task

TerminalLines == {"Execution completed successfully", "Execution timed out",
                  "Execution failed", "Execution cancelled"}

IsPrefix(p, q) == Len(p) <= Len(q) /\ \A i \in 1..Len(p) : p[i] = q[i]

\* C15: the log of an execution only grows at its end; its start line comes
\* before every terminal line of it; and when its end_time is stamped, the
\* terminal line is the last line of its log.
C15_LogOrder ==
    [][\A e \in Execs :
         /\ IsPrefix(heap[e].logs, heap'[e].logs)
         /\ \A i, j \in 1..Len(heap'[e].logs) :
              (heap'[e].logs[i] = "Starting execution" /\ heap'[e].logs[j] \in TerminalLines)
                => i < j
         /\ heap'[e].end_time # heap[e].end_time => Last(heap'[e].logs) \in TerminalLines]_vars

\* The invocations of the agent runner for an execution: each writes the line
\* "Working in worktree" first.
RunnerCalls(e) ==
    Cardinality({i \in 1..Len(heap[e].logs) : heap[e].logs[i] = "Working in worktree"})

\* C16: the agent runner is invoked at most once for an execution: never
\* before its coroutine has a slot, once when it is running or has ended.
C16_RunnerInvokedOnce ==
    \A e \in Execs :
      /\ RunnerCalls(e) <= 1
      /\ pc[e] = "pending" => RunnerCalls(e) = 0
      /\ pc[e] \in {"running", "done"} => RunnerCalls(e) = 1

\* An execution has ended FAILED and another TIMEOUT, every slot is free again
\* and each was run once.
C16_Witness ==
    /\ sem = max_concurrent
    /\ \E e, f \in Execs :
         /\ pc[e] = "done" /\ StatusOf(e) = FAILED /\ RunnerCalls(e) = 1
         /\ pc[f] = "done" /\ StatusOf(f) = TIMEOUT /\ RunnerCalls(f) = 1

\* C17: the k-th successful create_worktree (k = 0, 1, ...) gets port 3000 + k,
\* whatever was created, refused or cleaned up in between.
C17_PortsInCreationOrder ==
    \A k \in 1..Len(issued) : issued[k].port = PortBase + (k - 1)

\* The third worktree is for the pair of the first one, which was cleaned up
\* in between, and it has the third port.
C17_Witness ==
    /\ Len(issued) = 3
    /\ issued[3].path = issued[1].path
    /\ issued[3].port = PortBase + 2
    /\ worktree_index[issued[3].task_id] = issued[3]

\* C18: with create_worktree and cleanup_worktree called by several threads,
\* no two worktrees get the same port, and once every call has ended the
\* counter has advanced once per worktree created.
C18_ThreadsSerialized ==
    /\ \A i, j \in 1..Len(issued) : i # j => issued[i].port # issued[j].port
    /\ (\A t \in Threads : threads[t].pc = "idle") => port_counter = PortBase + Len(issued)

\* C19: a create_worktree that returns no worktree raises RuntimeError and
\* leaves the index and the port counter as they were.
C19_FailedCreateChangesNothing ==
    [][(mcall'.op = "create_worktree" /\ mcall'.raised # None) =>
         /\ mcall'.raised = Some("RuntimeError")
         /\ worktree_index' = worktree_index
         /\ port_counter' = port_counter
         /\ issued' = issued]_vars

\* A create_worktree has just failed at `git worktree add` (its branch is
\* there, its directory is not, and the pair never got a worktree), on a
\* manager with a worktree registered and one port used.
C19_Witness ==
    /\ mcall.op = "create_worktree"
    /\ mcall.raised = Some("RuntimeError")
    /\ Len(issued) = 1
    /\ DOMAIN worktree_index = {issued[1].task_id}
    /\ port_counter = PortBase + 1
    /\ \E agent \in Agents, task_id \in Tasks :
         /\ generate_branch_name(agent, task_id) \in branches
         /\ worktree_path(agent, task_id) \notin DOMAIN disk
         /\ worktree_path(agent, task_id) # issued[1].path

\* C20: create_worktree for a task id that has a registered worktree leaves
\* that registration as it was, and for the registered (agent, task) pair it
\* raises.
C20_CreateNeverReplaces ==
    [][\A agent \in Agents, task_id \in Tasks, git \in GitResults :
         (CreateWorktree(agent, task_id, git) /\ task_id \in DOMAIN worktree_index) =>
           /\ task_id \in DOMAIN worktree_index'
           /\ worktree_index'[task_id] = worktree_index[task_id]
           /\ worktree_index[task_id].agent = agent => mcall'.raised # None]_vars

\* C21: every worktree that create_worktree returned and whose directory has
\* not been removed since is in list_worktrees and is what get_worktree
\* returns for its task id.
C21_CreatedIsListed ==
    \A k \in 1..Len(issued) :
      (/\ issued[k].path \in DOMAIN disk
       /\ \A j \in (k + 1)..Len(issued) : issued[j].path # issued[k].path)
        => /\ issued[k] \in list_worktrees
           /\ get_worktree(issued[k].task_id) = Some(issued[k])

C23_CleanupOfMissingDirectory ==
    [][\A worktree \in Issued, force \in BOOLEAN, git \in CleanupGit :
         (worktree.path \notin DOMAIN disk /\ CleanupWorktree(worktree, force, git)) =>
           LET again == cleanup_worktree(
                          [index |-> worktree_index', branches |-> branches', disk |-> disk'],
                          worktree, force, git)
           IN  /\ mcall'.raised = None
               /\ mcall'.did = <<>>
               /\ branches' = branches /\ disk' = disk
               /\ worktree.task_id \notin DOMAIN worktree_index'
               /\ again.raised = None
               /\ again.index = worktree_index'
               /\ again.branches = branches' /\ again.disk = disk']_vars

\* A cleanup_worktree has just ended without a git command, and a worktree
\* whose directory was deleted under the manager is not registered while its
\* branch is still there.
C23_Witness ==
    /\ mcall.op = "cleanup_worktree"
    /\ mcall.raised = None
    /\ mcall.did = <<>>
    /\ Len(issued) = 1
    /\ issued[1].path \notin DOMAIN disk
    /\ issued[1].branch \in branches
    /\ worktree_index = <<>>

\* C24: a cleanup_worktree that removed the directory raises nothing and
\* leaves nothing registered under the task id, whether `git branch -D`
\* succeeded or not.
C24_BranchFailureSwallowed ==
    [][\A worktree \in Issued, force \in BOOLEAN, git \in CleanupGit :
         (/\ CleanupWorktree(worktree, force, git)
          /\ worktree.path \in DOMAIN disk
          /\ worktree.path \notin DOMAIN disk') =>
           /\ mcall'.raised = None
           /\ worktree.task_id \notin DOMAIN worktree_index']_vars

\* A cleanup_worktree has just removed the directory of the only worktree and
\* failed to delete its branch: it raised nothing and the worktree is not
\* registered.
C24_Witness ==
    /\ mcall.op = "cleanup_worktree"
    /\ mcall.raised = None
    /\ mcall.did # <<>>
    /\ Last(mcall.did) = <<"git branch -D", FALSE>>
    /\ Len(issued) = 1
    /\ issued[1].branch \in branches
    /\ issued[1].path \notin DOMAIN disk
    /\ worktree_index = <<>>

\* C25: cleanup_all visits every worktree registered when it is called and
\* raises nothing.
C25_CleanupAllVisitsAll ==
    [][\A force \in BOOLEAN, order \in Orders :
         \A gits \in [DOMAIN order -> CleanupGit] :
           CleanupAll(force, order, gits) =>
             /\ mcall'.raised = None
             /\ \A worktree \in list_worktrees :
                  \E i \in 1..Len(mcall'.did) :
                    /\ mcall'.did[i][1] = "cleanup_worktree"
                    /\ mcall'.did[i][2] = worktree.path]_vars

\* What the claims about the assigner speak of: a manual override that names
\* an agent (None and the empty string name none), the agents of a rule, and
\* the candidates that get a score for a task, in the order of their list.
Names(manual_override) == manual_override # None /\ manual_override[1] # ""
InRegistry(name) == \E i \in DOMAIN agents : agents[i][1] = name
RuleAgents(task) ==
    LET rules == assignment_rules[task.task_type]
    IN  {rules.primary} \cup {rules.secondary[i] : i \in DOMAIN rules.secondary}
CandidateList(task) ==
    LET of_rule == IF task.task_type \in DOMAIN assignment_rules
                   THEN <<assignment_rules[task.task_type].primary>>
                          \o assignment_rules[task.task_type].secondary
                   ELSE <<>>
    IN  IF \E i \in DOMAIN of_rule : InRegistry(of_rule[i])
        THEN SelectSeq(of_rule, InRegistry)
        ELSE [i \in DOMAIN agents |-> agents[i][1]]
TotalScore(task, name) ==
    score(task, agents[CHOOSE i \in DOMAIN agents : agents[i][1] = name][2])

\* C26: assign_agent with a manual override that names an agent the registry
\* lacks raises ValueError and leaves the assigned_agent of the task as it was.
C26_UnknownOverrideFails ==
    [][\A i \in DOMAIN task_list, manual_override \in Overrides :
         AssignAgent(i, manual_override)
           /\ Names(manual_override) /\ ~InRegistry(manual_override[1]) =>
             /\ acall'.raised = Some("ValueError")
             /\ task_list'[i].assigned_agent = task_list[i].assigned_agent]_vars

\* An unknown override was refused for a task that already had an agent.
C26_Witness ==
    /\ acall.op = "assign_agent"
    /\ acall.args[2] = Some("invalid_agent")
    /\ acall.raised = Some("ValueError")
    /\ task_list[acall.args[1]].assigned_agent \in {Some("claude"), Some("copilot")}

\* C27: in assign_agents every task whose override does not name an unknown
\* agent ends with assigned_agent set, whatever the overrides of the other
\* tasks of the batch are.
C27_UnknownOverrideFailsOneTask ==
    [][\A manual_overrides \in [Tasks -> Overrides] :
         AssignAgents(manual_overrides) =>
           \A i \in DOMAIN task_list :
              ~(Names(manual_overrides[task_list[i].id])
                  /\ ~InRegistry(manual_overrides[task_list[i].id][1]))
                => task_list'[i].assigned_agent # None]_vars

\* C28, as stated: without an override, a task whose type has a rule gets the
\* primary or a secondary agent of the rule (the set of these is never empty).
C28_SelectedWithinRule ==
    [][\A i \in DOMAIN task_list, manual_override \in {None, Some("")} :
         AssignAgent(i, manual_override)
           /\ task_list[i].task_type \in DOMAIN assignment_rules =>
             \E name \in RuleAgents(task_list[i]) :
                task_list'[i].assigned_agent = Some(name)]_vars

\* C28, amended: without an override, a task whose type has a rule gets the
\* primary or a secondary agent of the rule, unless the registry holds none
\* of them.
C28_SelectedWithinRuleIfRegistered ==
    [][\A i \in DOMAIN task_list, manual_override \in {None, Some("")} :
         AssignAgent(i, manual_override)
           /\ task_list[i].task_type \in DOMAIN assignment_rules
           /\ (\E name \in RuleAgents(task_list[i]) : InRegistry(name)) =>
             \E name \in RuleAgents(task_list[i]) :
                task_list'[i].assigned_agent = Some(name)]_vars

\* A rule with a registered secondary agent and an unregistered primary one
\* has selected the secondary agent, next to another registered agent.
C28_Witness ==
    /\ acall.op = "assign_agent"
    /\ acall.args[2] = None
    /\ acall.raised = None
    /\ task_list[1].task_type \in DOMAIN assignment_rules
    /\ assignment_rules[task_list[1].task_type] = [primary |-> "cursor", secondary |-> <<"copilot">>]
    /\ InRegistry("claude")
    /\ task_list[1].assigned_agent = Some("copilot")

\* C29: without an override the agent selected has a score no candidate
\* exceeds, and every candidate before it in the list has a lower score.
C29_FirstOfTheBest ==
    [][\A i \in DOMAIN task_list, manual_override \in {None, Some("")} :
         AssignAgent(i, manual_override) /\ CandidateList(task_list[i]) # <<>> =>
           LET list == CandidateList(task_list[i])
               task == task_list[i]
           IN  \E k \in DOMAIN list :
                  /\ task_list'[i].assigned_agent = Some(list[k])
                  /\ \A j \in DOMAIN list :
                        /\ TotalScore(task, list[j]) <= TotalScore(task, list[k])
                        /\ j < k => TotalScore(task, list[j]) < TotalScore(task, list[k])]_vars

\* Two candidates of a rule had the same score and the primary one was taken.
C29_Witness ==
    /\ acall.op = "assign_agent"
    /\ acall.args[2] = None
    /\ task_list[1].task_type \in DOMAIN assignment_rules
    /\ CandidateList(task_list[1]) = <<"claude", "copilot">>
    /\ TotalScore(task_list[1], "claude") = TotalScore(task_list[1], "copilot")
    /\ task_list[1].assigned_agent = Some("claude")

\* C30: an override that names a registered agent sets assigned_agent to that
\* agent, in assign_agent and for each task of assign_agents, and a task of
\* assign_agents without an override gets the agent the scores select.
C30_OverrideWins ==
    [][/\ \A i \in DOMAIN task_list, manual_override \in Overrides :
            AssignAgent(i, manual_override)
              /\ Names(manual_override) /\ InRegistry(manual_override[1]) =>
                task_list'[i].assigned_agent = manual_override
       /\ \A manual_overrides \in [Tasks -> Overrides] :
            AssignAgents(manual_overrides) =>
              \A i \in DOMAIN task_list :
                 LET override == manual_overrides[task_list[i].id]
                 IN  /\ Names(override) /\ InRegistry(override[1]) =>
                          task_list'[i].assigned_agent = override
                     /\ ~Names(override) =>
                          task_list'[i].assigned_agent
                            = Some(determine_best_agent(task_list[i]))]_vars

\* C31: assign_agent writes nothing but the assigned_agent of its task, the
\* scores of every candidate list are the same for the task as the call
\* leaves it as for the task as the call found it, and a call without an
\* override leaves the agent that the next such call selects.
C31_ScoringIsPure ==
    [][\A i \in DOMAIN task_list, manual_override \in Overrides :
         AssignAgent(i, manual_override) =>
           /\ agents' = agents
           /\ assignment_rules' = assignment_rules
           /\ \A j \in DOMAIN task_list : j # i => task_list'[j] = task_list[j]
           /\ task_list'[i]
                = [task_list[i] EXCEPT !.assigned_agent = task_list'[i].assigned_agent]
           /\ \A candidate_agents \in {<<>>, <<"claude">>, <<"copilot">>,
                                       <<"claude", "copilot">>, <<"copilot", "claude">>,
                                       <<"cursor", "copilot">>} :
                 score_agents(task_list'[i], candidate_agents, 1, <<>>)
                   = score_agents(task_list[i], candidate_agents, 1, <<>>)
           /\ ~Names(manual_override) =>
                 task_list'[i].assigned_agent
                   = Some(determine_best_agent(task_list'[i]))]_vars

\* A task was assigned by score, among two registered agents of different
\* scores, to the second of them, the agent a further call selects.
C31_Witness ==
    /\ acall.op = "assign_agent"
    /\ acall.args[2] = None
    /\ Len(agents) = 2
    /\ TotalScore(task_list[1], agents[1][1]) < TotalScore(task_list[1], agents[2][1])
    /\ task_list[1].assigned_agent = Some(agents[2][1])
    /\ task_list[1].assigned_agent = Some(determine_best_agent(task_list[1]))

\* The tags of a technology stack and of a profile as the claim takes them:
\* a set, letter case put aside.
TagSet(tags) == {lower(<<tag>>)[1] : tag \in tags}
Elements(list) == {list[i] : i \in DOMAIN list}

\* C32: the technology-stack factor is 2 for each distinct tag of the task,
\* letter case put aside, that the agent supports.
C32_TechStackIsASet ==
    [][\A i \in DOMAIN task_list, k \in DOMAIN agents :
         ScoreTechStackMatch(i, k) =>
           acall'.returned
             = Some(4 * Cardinality(TagSet(Elements(task_list[i].tech_stack))
                                      \cap TagSet(agents[k][2].supported_languages)))]_vars

\* The text of a task holds an indicator word: a piece of its description or
\* of one of its activities is one, in small letters or with a capital.
Indicators == {"multi-file", "refactor", "architecture", "legacy", "comprehensive",
               "Multi-file", "Refactor", "Architecture", "Legacy", "Comprehensive"}
HasIndicator(task) ==
    \/ \E i \in DOMAIN task.description : task.description[i] \in Indicators
    \/ \E a \in DOMAIN task.key_activities :
          \E i \in DOMAIN task.key_activities[a] : task.key_activities[a][i] \in Indicators

\* C33: the context-window factor is 3, 1.5, 1 or 0 by the table of the
\* claim, and for a task with an indicator word it does not fall when the
\* window grows.
C33_ContextWindowTable ==
    [][\A i \in DOMAIN task_list, k \in DOMAIN agents :
         ScoreContextWindow(i, k) =>
           LET task == task_list[i]
               window == agents[k][2].context_window
           IN  /\ acall'.returned =
                    Some(IF HasIndicator(task) /\ window >= 100000 THEN 6
                         ELSE IF HasIndicator(task) /\ window >= 50000 /\ window < 100000 THEN 3
                         ELSE IF ~HasIndicator(task) /\ window >= 8000 THEN 2
                         ELSE 0)
               /\ HasIndicator(task) =>
                    \A larger \in ContextWindows :
                       larger >= window =>
                         score_context_window(
                           task, [agents[k][2] EXCEPT !.context_window = larger])
                           >= acall'.returned[1]]_vars

\* A task whose only indicator word is in its activities got 1.5 from a
\* window of exactly 50000.
C33_Witness ==
    /\ acall.op = "_score_context_window"
    /\ ~(\E i \in DOMAIN task_list[1].description : task_list[1].description[i] \in Indicators)
    /\ HasIndicator(task_list[1])
    /\ agents[1][2].context_window = 50000
    /\ acall.returned = Some(3)

\* C34: assign_agent without an override raises nothing and leaves an agent
\* of the registry, or "claude" when the registry is empty.
C34_AssignedIsRegisteredOrDefault ==
    [][\A i \in DOMAIN task_list, manual_override \in {None, Some("")} :
         AssignAgent(i, manual_override) =>
           /\ acall'.raised = None
           /\ task_list'[i].assigned_agent # None
           /\ agents # <<>> => InRegistry(task_list'[i].assigned_agent[1])
           /\ agents = <<>> => task_list'[i].assigned_agent = Some("claude")]_vars

\* With an empty registry the task got the default agent.
C34_Witness ==
    /\ acall.op = "assign_agent"
    /\ acall.args[2] = None
    /\ acall.raised = None
    /\ agents = <<>>
    /\ task_list[1].assigned_agent = Some("claude")

\* An execution is inside its run: it has been made RUNNING (its start_time
\* is written) and its agent runner has not ended.
InRun(e) == heap[e].start_time # 0 /\ outcome[e] = None

\* cancel_all has written an execution after its start.
CancelledInRun(e) ==
    \E i, j \in DOMAIN heap[e].logs :
       /\ i < j
       /\ heap[e].logs[i] = "Starting execution"
       /\ heap[e].logs[j] = "Execution cancelled"

\* C35: the slots taken from the semaphore are those of the executions inside
\* their run, so that all max_concurrent slots are free when none is.
C35_SlotsHeldByRuns ==
    /\ sem = max_concurrent - Cardinality({e \in Execs : InRun(e)})
    /\ (\A e \in Execs : ~InRun(e)) => sem = max_concurrent

\* An execution cancelled inside its run and one whose runner timed out have
\* ended, and every slot is free again.
C35_Witness ==
    /\ \E e \in Execs : CancelledInRun(e) /\ outcome[e] # None
    /\ \E e \in Execs : outcome[e] = Some([kind |-> "timeout", value |-> ""])
    /\ \A e \in Execs : ~InRun(e)
    /\ sem = max_concurrent

\* C36: the return_code of an execution is 0, -1, 1 or unset by its status,
\* and is_successful holds for the COMPLETED executions only.
C36_ReturnCodeByStatus ==
    \A e \in Execs :
       /\ heap[e].return_code = Some(0) <=> heap[e].status = COMPLETED
       /\ heap[e].return_code = Some(-1) <=> heap[e].status = TIMEOUT
       /\ heap[e].return_code = Some(1) <=> heap[e].status = FAILED
       /\ heap[e].return_code = None <=> heap[e].status \in {PENDING, RUNNING, CANCELLED}
       /\ is_successful(heap[e]) <=> heap[e].status = COMPLETED

\* An execution cancelled inside its run has timed out since, next to one
\* that is CANCELLED.
C36_Witness ==
    /\ \E e \in Execs :
          /\ CancelledInRun(e)
          /\ heap[e].status = TIMEOUT
          /\ heap[e].return_code = Some(-1)
    /\ \E e \in Execs : heap[e].status = CANCELLED /\ heap[e].return_code = None

\* C37: cleanup_worktree(worktree) leaves every registration of another
\* Worktree as it is, whether it returns or raises.
C37_CleanupKeepsOthers ==
    [][\A worktree \in Issued, force \in BOOLEAN, git \in CleanupGit :
         CleanupWorktree(worktree, force, git) =>
           \A task_id \in DOMAIN worktree_index :
              worktree_index[task_id] # worktree =>
                /\ task_id \in DOMAIN worktree_index'
                /\ worktree_index'[task_id] = worktree_index[task_id]]_vars

\* C38: a create_worktree that fails at `git worktree add` leaves the
\* branches of the repository as they were, so that the branch of its own
\* `git branch` does not make a later call for the same agent and task fail.
C38_FailedCheckoutLeavesNoBranch ==
    [][\A agent \in Agents, task_id \in Tasks, git \in CreateGit :
         CreateWorktree(agent, task_id, git)
           /\ mcall'.raised # None
           /\ mcall'.did = <<<<"git branch", TRUE>>, <<"git worktree add", FALSE>>>> =>
             /\ generate_branch_name(agent, task_id) \notin branches'
             /\ branches' = branches]_vars
====
